---- MODULE Spec2Model ----
(***************************************************************************)
(* Alertium bot (src/bot.py): the badge poll cycle (on_ready,              *)
(* check_for_badges, the snapshot file) and the reaction handlers          *)
(* (on_raw_reaction_add, on_raw_reaction_remove).                          *)
(*                                                                         *)
(* SpecPoll  : the poll side; the reaction state stays as constructed.     *)
(* SpecMod   : reaction-adds that can complete a forbidden combo, with the *)
(*             clock; the poll state stays as constructed.                 *)
(* SpecCombo : reaction-adds of one user on one message with the emojis of *)
(*             two overlapping combos.                                     *)
(* SpecOptIn : reaction-adds and -removes on every kind of message, with   *)
(*             the opt-in token; a bounded number of events.               *)
(***************************************************************************)
EXTENDS Integers, Sequences, FiniteSets, TLC

\* ------------------------------------------------------------------ bounds
NumBadges == 2          \* distinct badge ids "set_id:version_id" the API can list
MaxCatalog == 2         \* longest badge list a fetch returns

MaxClock == 40          \* the clock stops here (seconds)
TickStep == 5           \* seconds between two readings of the clock
MaxOptEvents == 3       \* reaction events of a run of SpecOptIn

BadgeIds == 1..NumBadges

VARIABLES
    \* ---- poll side, program state
    known_badge_ids,    \* bot.py:65  the in-memory seen-set
    snapshot_file,      \* bot.py:49  content of SNAPSHOT_FILE on disk
    ready_pc,           \* position of the on_ready coroutine, or how it ended
    loop_running,       \* check_for_badges.is_running()
    poll_pc,            \* position of the check_for_badges coroutine, or how it ended
    badges,             \* local of check_for_badges (bot.py:256)
    new_badges,         \* local of check_for_badges (bot.py:261)
    idx,                \* position of the for loop at bot.py:269
    \* ---- poll side, environment and observations
    last_fetch,         \* what fetch_global_badges gave the latest poll cycle
    bootstrapped,       \* a non-empty badge list has been fetched and handled
    announced_now,      \* ids sent by channel.send in the running poll cycle, in order
    announced_before    \* ids sent in earlier poll cycles

pollVars == <<known_badge_ids, snapshot_file, ready_pc, loop_running, poll_pc,
              badges, new_badges, idx, last_fetch, bootstrapped, announced_now,
              announced_before>>

VARIABLES
    \* ---- reaction side, program state
    reactions_on_message,   \* bot.py:27  (message, user) -> emojis seen
    offense_counts,         \* bot.py:23  user -> count (0 where the dict has no entry)
    last_punished_at,       \* bot.py:28  the dict user -> time
    roles,                  \* users whose member.roles holds the alert role
    handlers,               \* the running on_raw_reaction_add/_remove coroutines
    \* ---- reaction side, environment and observations
    now,                    \* datetime.utcnow(), in seconds
    n_events,               \* reaction events dispatched (SpecOptIn)
    punish_log,             \* user -> the punishments emitted, in order
    punished_at,            \* dict user -> when and on which message the last
                            \* punishment was emitted
    outcome,                \* how the latest combo match ended
    unscrubbed,             \* a non-token reaction stayed on the opt-in message
    raised,                 \* the handler that ended last was left by an exception
    timeout_failed          \* the latest member.timeout call raised

reactVars == <<reactions_on_message, offense_counts, last_punished_at, roles,
               handlers, now, n_events, punish_log, punished_at, outcome,
               unscrubbed, raised, timeout_failed>>

vars == <<pollVars, reactVars>>

\* ----------------------------------------------------------------- helpers
Range(s) == {s[i] : i \in 1..Len(s)}

SeqsUpTo(S, n) == UNION {[1..k -> S] : k \in 0..n}

RECURSIVE SortedSeq(_)
\* sorted(list(ids)), bot.py:87
SortedSeq(S) ==
    IF S = {} THEN <<>>
    ELSE LET m == CHOOSE x \in S : \A y \in S : x <= y
         IN  <<m>> \o SortedSeq(S \ {m})

\* {b["id"] for b in badges}, bot.py:217 and bot.py:260
IdsOf(bs) == Range(bs)

\* --------------------------------------------------------- snapshot file
Absent == [state |-> "absent", payload |-> <<>>]
Torn   == [state |-> "torn", payload |-> <<>>]
Valid(ids) == [state |-> "valid", payload |-> SortedSeq(ids)]

\* bot.py:72-82: no file, or a file json.load rejects, is the empty set
load_snapshot(file) ==
    IF file.state = "valid" THEN Range(file.payload) ELSE {}

SaveResults == {"ok", "open_failed", "write_failed"}

\* bot.py:85-92: open(..., "w") truncates, json.dump writes; every exception is
\* swallowed.  A failed open leaves the file, a failed write leaves it cut short.
save_snapshot(file, ids, result) ==
    CASE result = "ok"           -> Valid(ids)
      [] result = "open_failed"  -> file
      [] result = "write_failed" -> Torn

\* ------------------------------------------------------------ Twitch API
\* What session.get answers: 200 with the list, a non-200 status, or an
\* exception of aiohttp (ClientError) or of response.json() (ValueError).
Responses ==
    { [kind |-> "ok", body |-> b] : b \in SeqsUpTo(BadgeIds, MaxCatalog) } \cup
    { [kind |-> "non200", body |-> <<>>],
      [kind |-> "client_error", body |-> <<>>],
      [kind |-> "bad_body", body |-> <<>>] }

\* bot.py:132-179: no try/except around the request or the decoding
fetch_global_badges(resp) ==
    CASE resp.kind = "ok"     -> [raised |-> FALSE, value |-> resp.body]
      [] resp.kind = "non200" -> [raised |-> FALSE, value |-> <<>>]
      [] OTHER                -> [raised |-> TRUE, value |-> <<>>]

\* Positions of a coroutine that is not running: not started, returned, or
\* left by an exception.
Ended == {"idle", "returned", "raised"}

\* ---------------------------------------------------------------- Init
InitPoll ==
    /\ known_badge_ids = {}
    /\ snapshot_file = Absent
    /\ ready_pc = "idle"
    /\ loop_running = FALSE
    /\ poll_pc = "idle"
    /\ badges = <<>>
    /\ new_badges = {}
    /\ idx = 0
    /\ last_fetch = "none"
    /\ bootstrapped = FALSE
    /\ announced_now = <<>>
    /\ announced_before = {}

\* ------------------------------------------------- reaction side: data
\* Emoji tokens, str(payload.emoji): flag_n and flag_g are the regional
\* indicators N and G, angry and cursing the two faces, check the opt-in token.
FORBIDDEN_COMBOS ==
    << {"flag_n", "I", "G"},
       {"flag_n", "I", "G", "flag_g", "E", "R"},
       {"flag_n", "I", "G", "flag_g", "A"},
       {"angry", "cursing"} >>

OFFENSE_TIMEOUTS == <<1, 5, 15, 60>>

Cooldown == 10

OptInToken == "check"

None == "None"
Bot == "bot"
Users == {"u1", "u2"}

\* Messages of the guild: who wrote each and the title of its first embed
\* (a sequence of words; NoEmbed when message.embeds is empty).
OptInTitle == <<"Alertium", "Notifications", "Opt-in">>
NoEmbed == <<"(no embed)">>
Messages == {"optin", "plain", "badge", "relabelled", "chat"}

MsgAuthor(m) == IF m = "chat" THEN "u1" ELSE Bot

MsgEmbedTitle(m) ==
    CASE m = "optin"      -> OptInTitle                       \* bot.py:585-591
      [] m = "badge"      -> <<"New", "TTV", "Global", "Badge", "Detected">>  \* bot.py:187-188
      [] m = "relabelled" -> <<"Old">> \o OptInTitle
      [] OTHER            -> NoEmbed                          \* bot.py:534, a plain reply

\* input domains of the two reaction specifications
ModUsers  == {"u1"}
ModMsgs   == {"chat", "plain"}
ModEmojis == {"angry", "cursing"}
ComboEmojis == {"flag_n", "I", "G", "flag_g", "A"}
OptUsers  == {"u1", Bot}
OptMsgs   == Messages
OptEmojis == {"check", "angry", "cursing"}

Slots == {1, 2}
Keys == Messages \X Users

\* a Python dict as a function on the keys it holds
EmptyDict == [k \in {} |-> 0]
DictSet(d, k, v) == [x \in DOMAIN d \cup {k} |-> IF x = k THEN v ELSE d[x]]

Idle == [pc |-> "idle", user |-> None, msg |-> None, emoji |-> None, combos |-> <<>>]

InitReact ==
    /\ reactions_on_message = [k \in Keys |-> {}]
    /\ offense_counts = [u \in Users |-> 0]
    /\ last_punished_at = EmptyDict
    /\ roles = {}
    /\ handlers = [h \in Slots |-> Idle]
    /\ now = 0
    /\ n_events = 0
    /\ punish_log = [u \in Users |-> <<>>]
    /\ punished_at = EmptyDict
    /\ outcome = [user |-> None, msg |-> None, kind |-> "none"]
    /\ unscrubbed = FALSE
    /\ raised = FALSE
    /\ timeout_failed = FALSE

Init == InitPoll /\ InitReact

\* ------------------------------------------------------------- on_ready
\* bot.py:209-215 and, with a non-empty snapshot, bot.py:221-222
OnReadyStart ==
    /\ ready_pc \in Ended
    /\ known_badge_ids' = load_snapshot(snapshot_file)
    /\ IF known_badge_ids' # {}
         THEN /\ loop_running' = TRUE
              /\ ready_pc' = "returned"
         ELSE /\ ready_pc' = "boot_fetch"
              /\ UNCHANGED loop_running
    /\ UNCHANGED <<snapshot_file, poll_pc, badges, new_badges, idx, last_fetch,
                   bootstrapped, announced_now, announced_before>>

\* bot.py:216-222: the bootstrap fetch returns or raises
OnReadyFetch(resp, saved) ==
    /\ ready_pc = "boot_fetch"
    /\ LET r == fetch_global_badges(resp)
       IN  /\ IF r.raised
             THEN /\ ready_pc' = "raised"
                  /\ UNCHANGED <<known_badge_ids, snapshot_file, loop_running>>
             ELSE /\ ready_pc' = "returned"
                  /\ known_badge_ids' = IdsOf(r.value)
                  /\ snapshot_file' = save_snapshot(snapshot_file, known_badge_ids', saved)
                  /\ loop_running' = TRUE
           /\ bootstrapped' = (bootstrapped \/ r.value # <<>>)
    /\ UNCHANGED <<poll_pc, badges, new_badges, idx, last_fetch, announced_now,
                   announced_before>>

\* ----------------------------------------------------- check_for_badges
\* The loop of @tasks.loop(seconds=30), bot.py:251, starts the next iteration;
\* iterations never overlap.  The iteration awaits the fetch, bot.py:256.
PollTick ==
    /\ loop_running
    /\ poll_pc \in Ended
    /\ poll_pc' = "fetch"
    /\ announced_before' = announced_before \cup Range(announced_now)
    /\ announced_now' = <<>>
    /\ last_fetch' = "none"
    /\ UNCHANGED <<known_badge_ids, snapshot_file, ready_pc, loop_running, badges,
                   new_badges, idx, bootstrapped>>

\* current_ids - known_badge_ids, bot.py:261
NewBadges(current_ids, known) == current_ids \ known

\* the value bot.py:279 assigns to known_badge_ids
UpdatedSeen(current_ids, known) == current_ids

\* NextNew walking the list from its end: the last position p >= i whose id is new
NextNew_FromEnd(bs, new, i) ==
    LET later == {p \in i..Len(bs) : bs[p] \in new}
    IN  IF later = {} THEN 0 ELSE CHOOSE p \in later : \A q \in later : p >= q

\* first position p >= i of bs whose id is new (the for/if of bot.py:269-270), 0 if none
NextNew(bs, new, i) ==
    LET later == {p \in i..Len(bs) : bs[p] \in new}
    IN  IF later = {} THEN 0 ELSE CHOOSE p \in later : \A q \in later : p <= q

\* bot.py:278-280
Commit(bs, saved) ==
    /\ known_badge_ids' = UpdatedSeen(IdsOf(bs), known_badge_ids)
    /\ snapshot_file' = save_snapshot(snapshot_file, known_badge_ids', saved)

\* the coroutine returns or raises: its locals are gone
PollEnds(how) ==
    /\ poll_pc' = how
    /\ badges' = <<>>
    /\ new_badges' = {}
    /\ idx' = 0

\* CycleBranch with an empty fetch read as "the catalog is empty": the cycle
\* goes on to the commit instead of returning.
CycleBranch_EmptyIsCatalog(bs, new, channel) ==
    IF bs = <<>> THEN "commit"
    ELSE IF new = {} THEN "return"
    ELSE IF channel THEN "announce"
    ELSE "commit"

\* bot.py:257-268: where check_for_badges goes once the fetch has returned
CycleBranch(bs, new, channel) ==
    IF bs = <<>> THEN "return"
    ELSE IF new = {} THEN "return"
    ELSE IF channel THEN "announce"
    ELSE "commit"

FetchKind(r) ==
    IF r.raised THEN "raised" ELSE IF r.value = <<>> THEN "empty" ELSE "list"

\* bot.py:256-268: the fetch is answered; the code runs on to its next await
PollFetch(resp, channel, saved) ==
    /\ poll_pc = "fetch"
    /\ LET r == fetch_global_badges(resp)
           new == NewBadges(IdsOf(r.value), known_badge_ids)
           branch == CycleBranch(r.value, new, channel)
           first == NextNew(r.value, new, 1)
       IN  /\ last_fetch' = FetchKind(r)
           /\ IF r.raised
                THEN \* the exception leaves the coroutine: the loop retries after a
                     \* ClientError and ends on anything else
                     /\ PollEnds("raised")
                     /\ loop_running' = (resp.kind = "client_error")
                     /\ UNCHANGED <<known_badge_ids, snapshot_file, bootstrapped>>
                ELSE IF branch = "return"
                THEN /\ PollEnds("returned")
                     /\ bootstrapped' = (bootstrapped \/ r.value # <<>>)
                     /\ UNCHANGED <<known_badge_ids, snapshot_file, loop_running>>
                ELSE IF branch = "commit" \/ first = 0
                THEN /\ PollEnds("returned")
                     /\ Commit(r.value, saved)
                     /\ bootstrapped' = (bootstrapped \/ r.value # <<>>)
                     /\ UNCHANGED loop_running
                ELSE /\ poll_pc' = "announce"
                     /\ badges' = r.value
                     /\ new_badges' = new
                     /\ idx' = first
                     /\ UNCHANGED <<known_badge_ids, snapshot_file, loop_running,
                                    bootstrapped>>
    /\ UNCHANGED <<ready_pc, announced_now, announced_before>>

\* bot.py:269-280: one channel.send returns or raises
PollAnnounce(sent, saved) ==
    /\ poll_pc = "announce"
    /\ IF ~sent
         THEN \* discord.HTTPException leaves the coroutine and ends the loop
              /\ PollEnds("raised")
              /\ loop_running' = FALSE
              /\ UNCHANGED <<known_badge_ids, snapshot_file, announced_now>>
         ELSE /\ announced_now' = Append(announced_now, badges[idx])
              /\ LET n == NextNew(badges, new_badges, idx + 1)
                 IN  IF n # 0
                       THEN /\ idx' = n
                            /\ UNCHANGED <<known_badge_ids, snapshot_file, poll_pc,
                                           badges, new_badges>>
                       ELSE /\ PollEnds("returned")
                            /\ Commit(badges, saved)
              /\ UNCHANGED loop_running
    /\ bootstrapped' = (bootstrapped \/ poll_pc' # "announce")
    /\ UNCHANGED <<ready_pc, last_fetch, announced_before>>

\* ----------------------------------------------------------- environment
\* The process is stopped and started again: the module globals are rebuilt
\* (bot.py:65), every coroutine is gone, the file stays.
Restart ==
    /\ known_badge_ids' = {}
    /\ ready_pc' = "idle"
    /\ loop_running' = FALSE
    /\ PollEnds("idle")
    /\ announced_before' = announced_before \cup Range(announced_now)
    /\ announced_now' = <<>>
    /\ bootstrapped' = (bootstrapped \/ poll_pc = "announce")
    /\ UNCHANGED <<snapshot_file, last_fetch>>

NextPoll ==
    \/ OnReadyStart /\ UNCHANGED reactVars
    \/ \E resp \in Responses, saved \in SaveResults :
            OnReadyFetch(resp, saved) /\ UNCHANGED reactVars
    \/ PollTick /\ UNCHANGED reactVars
    \/ \E resp \in Responses, channel \in BOOLEAN, saved \in SaveResults :
            PollFetch(resp, channel, saved) /\ UNCHANGED reactVars
    \/ \E sent \in BOOLEAN, saved \in SaveResults :
            PollAnnounce(sent, saved) /\ UNCHANGED reactVars
    \/ Restart /\ UNCHANGED reactVars

SpecPoll == Init /\ [][NextPoll]_vars

\* ======================================================== poll-cycle claims

\* C1: no badge id is announced in two different poll cycles of
\* check_for_badges: what the running cycle has sent is disjoint from what
\* earlier cycles sent.
C1_NoIdAnnouncedTwice ==
    Range(announced_now) \cap announced_before = {}

\* C2: a process that starts with an empty persisted seen-set announces nothing
\* for the catalog that exists at startup: until the first non-empty badge list
\* has been handled, also when it is check_for_badges that fetches it, no
\* announcement is sent.
C2_BootstrapSilence ==
    ~bootstrapped => announced_now = <<>>

\* C3: a poll cycle whose fetch returns an empty sequence leaves
\* known_badge_ids and the snapshot file as they were, sends no announcement,
\* and ends.
C3_EmptyFetchChangesNothing ==
    [][ (poll_pc = "fetch" /\ last_fetch' = "empty" /\ poll_pc' # "fetch")
          => /\ known_badge_ids' = known_badge_ids
             /\ snapshot_file' = snapshot_file
             /\ announced_now' = announced_now
             /\ poll_pc' = "returned" ]_vars

\* C3 witness: a cycle has been skipped on an empty fetch while the seen-set
\* and the snapshot held ids.
C3_Witness ==
    /\ poll_pc = "returned"
    /\ last_fetch = "empty"
    /\ known_badge_ids # {}
    /\ load_snapshot(snapshot_file) # {}

\* a step of on_ready or of check_for_badges
PollSideStep ==
    \/ OnReadyStart
    \/ \E resp \in Responses, saved \in SaveResults : OnReadyFetch(resp, saved)
    \/ \E resp \in Responses, channel \in BOOLEAN, saved \in SaveResults :
            PollFetch(resp, channel, saved)
    \/ \E sent \in BOOLEAN, saved \in SaveResults : PollAnnounce(sent, saved)

\* C9: the seen-set only grows: every step of on_ready and check_for_badges
\* leaves known_badge_ids, and the set the snapshot file holds, a superset of
\* what it was.
C9_SeenSetOnlyGrows ==
    [][ PollSideStep
          => /\ known_badge_ids \subseteq known_badge_ids'
             /\ load_snapshot(snapshot_file) \subseteq load_snapshot(snapshot_file') ]_vars

\* C10: fetch_global_badges never raises to its caller, neither in on_ready nor
\* in check_for_badges.
C10_FetchNeverRaises ==
    /\ last_fetch # "raised"
    /\ ready_pc # "raised"

\* ================================================== the reaction handlers

\* FirstMatch keeping the last combo inside the tracked set instead of the first
FirstMatch_LastWins(tracked) ==
    LET hits == {i \in 1..Len(FORBIDDEN_COMBOS) : FORBIDDEN_COMBOS[i] \subseteq tracked}
    IN  IF hits = {} THEN 0 ELSE CHOOSE i \in hits : \A j \in hits : i >= j

\* the first combo of FORBIDDEN_COMBOS inside the tracked set, 0 if none:
\* the for/if/break of bot.py:374-375, 390, 435
FirstMatch(tracked) ==
    LET hits == {i \in 1..Len(FORBIDDEN_COMBOS) : FORBIDDEN_COMBOS[i] \subseteq tracked}
    IN  IF hits = {} THEN 0 ELSE CHOOSE i \in hits : \A j \in hits : i <= j

\* the loop of bot.py:374-435 without its break: the body runs for every combo
\* inside the tracked set
CombosHandled_NoBreak(tracked) ==
    LET hits == {i \in 1..Len(FORBIDDEN_COMBOS) : FORBIDDEN_COMBOS[i] \subseteq tracked}
    IN  SortedSeq(hits)

\* the combos the body of the loop at bot.py:374 runs for: the first one inside
\* the tracked set and, because of the break at bot.py:390 and bot.py:435, no other
CombosHandled(tracked) ==
    IF FirstMatch(tracked) = 0 THEN <<>> ELSE <<FirstMatch(tracked)>>

\* InCooldown with the bound included: a match exactly Cooldown seconds after
\* the last punishment is still suppressed.
InCooldown_Inclusive(d, u, t) == u \in DOMAIN d /\ t - d[u] <= Cooldown

\* bot.py:386-387: last = last_punished_at.get(member.id);
\* last and (now - last).total_seconds() < 10
InCooldown(d, u, t) == u \in DOMAIN d /\ t - d[u] < Cooldown

\* TimeoutMinutes with the ladder indexed by count instead of count - 1
TimeoutMinutes_OffByOne(count) ==
    LET index == IF count < Len(OFFENSE_TIMEOUTS) - 1
                   THEN count ELSE Len(OFFENSE_TIMEOUTS) - 1
    IN  OFFENSE_TIMEOUTS[index + 1]

\* bot.py:397-398
TimeoutMinutes(count) ==
    LET index == IF count - 1 < Len(OFFENSE_TIMEOUTS) - 1
                   THEN count - 1 ELSE Len(OFFENSE_TIMEOUTS) - 1
    IN  OFFENSE_TIMEOUTS[index + 1]

\* p occurs in s as a run of consecutive elements: Python's "p in s" on strings
Contains(s, p) ==
    \E i \in 0..(Len(s) - Len(p)) : SubSeq(s, i + 1, i + Len(p)) = p

\* bot.py:467-475: the message test of on_raw_reaction_add
AddAccepts(m) ==
    /\ MsgAuthor(m) = Bot
    /\ MsgEmbedTitle(m) # NoEmbed => Contains(MsgEmbedTitle(m), OptInTitle)

\* bot.py:516-521: the message test of on_raw_reaction_remove
RemoveAccepts(m) ==
    /\ MsgAuthor(m) = Bot
    /\ MsgEmbedTitle(m) # NoEmbed => MsgEmbedTitle(m) = OptInTitle

\* the slot's coroutine returned or raised
Ends(h) == handlers' = [handlers EXCEPT ![h] = Idle]

\* when the coroutine of slot h has ended in this step: whether an exception
\* left it
Raised(h, exc) == raised' = IF handlers'[h].pc = "idle" THEN exc ELSE raised

\* bot.py:437-460: part 3 of on_raw_reaction_add up to its first await; a
\* reaction other than the token returns at once and stays on the message
\* unless this handler's cleanup has removed it
OptInPart(h, u, m, e, role, removed) ==
    /\ unscrubbed' = (unscrubbed \/ (m = "optin" /\ e # OptInToken /\ ~removed))
    /\ IF e # OptInToken \/ ~role
         THEN Ends(h)
         ELSE handlers' = [handlers EXCEPT ![h] =
                              [pc |-> "optin_fetch", user |-> u, msg |-> m, emoji |-> e,
                               combos |-> <<>>]]

\* bot.py:367-369: reactions_on_message[key].add(emoji_str)
Track(tracked, e) == tracked \cup {e}

\* bot.py:350-376: a reaction-add event is dispatched; the handler records the
\* emoji and tests the combos
ReactionAdd(h, u, m, e, guild, role) ==
    /\ handlers[h].pc = "idle"
    /\ IF u = Bot \/ ~guild
         THEN UNCHANGED <<reactions_on_message, handlers, unscrubbed>>
         ELSE LET key == <<m, u>>
                  tracked == Track(reactions_on_message[key], e)
              IN  /\ reactions_on_message' = [reactions_on_message EXCEPT ![key] = tracked]
                  /\ IF CombosHandled(tracked) # <<>>
                       THEN /\ handlers' = [handlers EXCEPT ![h] =
                                   [pc |-> "resolve_member", user |-> u, msg |-> m,
                                    emoji |-> e, combos |-> CombosHandled(tracked)]]
                            /\ UNCHANGED unscrubbed
                       ELSE OptInPart(h, u, m, e, role, FALSE)
    /\ Raised(h, FALSE)
    /\ UNCHANGED timeout_failed
    /\ UNCHANGED <<offense_counts, last_punished_at, roles, now, punish_log,
                   punished_at, outcome>>

\* bot.py:377-398: the member is there (from the cache or from fetch_member) or
\* fetch_member raised NotFound; then the cooldown test and the bookkeeping
ResolveMember(h, found, role) ==
    /\ handlers[h].pc = "resolve_member"
    /\ LET u == handlers[h].user
           m == handlers[h].msg
           e == handlers[h].emoji
           combos == handlers[h].combos
           count == offense_counts[u]
       IN  IF ~found
             THEN /\ Ends(h)
                  /\ outcome' = [user |-> u, msg |-> m, kind |-> "notfound"]
                  /\ UNCHANGED <<offense_counts, last_punished_at, punish_log,
                                 punished_at, unscrubbed>>
             ELSE IF InCooldown(last_punished_at, u, now)
             THEN /\ outcome' = [user |-> u, msg |-> m, kind |-> "suppressed"]
                  /\ OptInPart(h, u, m, e, role, FALSE)
                  /\ UNCHANGED <<offense_counts, last_punished_at, punish_log, punished_at>>
             ELSE /\ offense_counts' = [offense_counts EXCEPT ![u] = count + Len(combos)]
                  /\ last_punished_at' = DictSet(last_punished_at, u, now)
                  /\ punish_log' = [punish_log EXCEPT ![u] =
                        @ \o [i \in 1..Len(combos) |->
                                [count |-> count + i,
                                 minutes |-> TimeoutMinutes(count + i),
                                 combo |-> combos[i]]]]
                  /\ punished_at' = DictSet(punished_at, u, [at |-> now, msg |-> m])
                  /\ outcome' = [user |-> u, msg |-> m, kind |-> "punished"]
                  /\ handlers' = [handlers EXCEPT ![h].pc = "punish"]
                  /\ UNCHANGED unscrubbed
    /\ Raised(h, FALSE)
    /\ UNCHANGED timeout_failed
    /\ UNCHANGED <<reactions_on_message, roles, now>>

\* HandlerRaises without the except of bot.py:406: a failed member.timeout
\* leaves the handler
HandlerRaises_TimeoutPropagates(timeout_ok, log_ok) == ~timeout_ok \/ ~log_ok

\* bot.py:400-430: which failure leaves the handler as an exception.  The
\* except of bot.py:406 keeps the one of member.timeout, the except of
\* bot.py:418 the one of the cleanup; log_channel.send (bot.py:125) is awaited
\* outside any try
HandlerRaises(timeout_ok, log_ok) == ~log_ok

\* bot.py:400-435: member.timeout, the removal of the member's reactions and
\* log_timeout_action have returned or raised.  The first two are wrapped in
\* try/except; an exception of log_channel.send leaves the handler before the
\* clear of bot.py:433
PunishDone(h, timeout_ok, cleanup_ok, log_ok, role) ==
    /\ handlers[h].pc = "punish"
    /\ LET u == handlers[h].user
           m == handlers[h].msg
           e == handlers[h].emoji
       IN  IF HandlerRaises(timeout_ok, log_ok)
             THEN /\ Ends(h)
                  /\ unscrubbed' = (unscrubbed \/ (m = "optin" /\ e # OptInToken /\ ~cleanup_ok))
                  /\ UNCHANGED reactions_on_message
             ELSE /\ reactions_on_message' = [reactions_on_message EXCEPT ![<<m, u>>] = {}]
                  /\ OptInPart(h, u, m, e, role, cleanup_ok)
    /\ Raised(h, HandlerRaises(timeout_ok, log_ok))
    /\ timeout_failed' = ~timeout_ok
    /\ UNCHANGED <<offense_counts, last_punished_at, roles, now, punish_log,
                   punished_at, outcome>>

\* bot.py:451-479: fetch_member and fetch_message have returned, or one raised
\* NotFound; then the message test and the look at member.roles
OptInFetched(h, found) ==
    /\ handlers[h].pc = "optin_fetch"
    /\ IF found /\ AddAccepts(handlers[h].msg) /\ handlers[h].user \notin roles
         THEN handlers' = [handlers EXCEPT ![h].pc = "add_roles"]
         ELSE Ends(h)
    /\ Raised(h, FALSE)
    /\ UNCHANGED timeout_failed
    /\ UNCHANGED <<reactions_on_message, offense_counts, last_punished_at, roles, now,
                   punish_log, punished_at, outcome, unscrubbed>>

\* bot.py:478: member.add_roles has returned or raised
AddRolesDone(h, ok) ==
    /\ handlers[h].pc = "add_roles"
    /\ roles' = IF ok THEN roles \cup {handlers[h].user} ELSE roles
    /\ Ends(h)
    /\ Raised(h, ~ok)
    /\ UNCHANGED timeout_failed
    /\ UNCHANGED <<reactions_on_message, offense_counts, last_punished_at, now,
                   punish_log, punished_at, outcome, unscrubbed>>

\* bot.py:484-509: a reaction-remove event is dispatched
ReactionRemove(h, u, e, m, guild, role) ==
    /\ handlers[h].pc = "idle"
    /\ IF ~role \/ e # OptInToken \/ ~guild
         THEN UNCHANGED handlers
         ELSE handlers' = [handlers EXCEPT ![h] =
                              [pc |-> "remove_fetch", user |-> u, msg |-> m, emoji |-> e,
                               combos |-> <<>>]]
    /\ Raised(h, FALSE)
    /\ UNCHANGED timeout_failed
    /\ UNCHANGED <<reactions_on_message, offense_counts, last_punished_at, roles, now,
                   punish_log, punished_at, outcome, unscrubbed>>

\* bot.py:500-524
RemoveFetched(h, found) ==
    /\ handlers[h].pc = "remove_fetch"
    /\ IF found /\ RemoveAccepts(handlers[h].msg) /\ handlers[h].user \in roles
         THEN handlers' = [handlers EXCEPT ![h].pc = "remove_roles"]
         ELSE Ends(h)
    /\ Raised(h, FALSE)
    /\ UNCHANGED timeout_failed
    /\ UNCHANGED <<reactions_on_message, offense_counts, last_punished_at, roles, now,
                   punish_log, punished_at, outcome, unscrubbed>>

\* bot.py:524: member.remove_roles has returned or raised
RemoveRolesDone(h, ok) ==
    /\ handlers[h].pc = "remove_roles"
    /\ roles' = IF ok THEN roles \ {handlers[h].user} ELSE roles
    /\ Ends(h)
    /\ Raised(h, ~ok)
    /\ UNCHANGED timeout_failed
    /\ UNCHANGED <<reactions_on_message, offense_counts, last_punished_at, now,
                   punish_log, punished_at, outcome, unscrubbed>>

\* the clock moves on
Tick ==
    /\ now + TickStep <= MaxClock
    /\ now' = now + TickStep
    /\ UNCHANGED <<reactions_on_message, offense_counts, last_punished_at, roles,
                   handlers, punish_log, punished_at, outcome, unscrubbed, raised,
                   timeout_failed>>

NextMod ==
    \/ \E h \in Slots, u \in ModUsers, m \in ModMsgs, e \in ModEmojis :
            ReactionAdd(h, u, m, e, TRUE, TRUE) /\ UNCHANGED <<n_events, pollVars>>
    \/ \E h \in Slots, found \in BOOLEAN :
            ResolveMember(h, found, TRUE) /\ UNCHANGED <<n_events, pollVars>>
    \/ \E h \in Slots, timeout_ok \in BOOLEAN, cleanup_ok \in BOOLEAN, log_ok \in BOOLEAN :
            PunishDone(h, timeout_ok, cleanup_ok, log_ok, TRUE)
                /\ UNCHANGED <<n_events, pollVars>>
    \/ Tick /\ UNCHANGED <<n_events, pollVars>>

SpecMod == Init /\ [][NextMod]_vars

\* Reaction-adds of one user on one message with the emojis of the first and
\* the third combo, so that the tracked set can hold several combos at once.
NextCombo ==
    \/ \E h \in Slots, e \in ComboEmojis :
            ReactionAdd(h, "u1", "chat", e, TRUE, TRUE) /\ UNCHANGED <<n_events, pollVars>>
    \/ \E h \in Slots, found \in BOOLEAN :
            ResolveMember(h, found, TRUE) /\ UNCHANGED <<n_events, pollVars>>
    \/ \E h \in Slots, timeout_ok \in BOOLEAN, cleanup_ok \in BOOLEAN, log_ok \in BOOLEAN :
            PunishDone(h, timeout_ok, cleanup_ok, log_ok, TRUE)
                /\ UNCHANGED <<n_events, pollVars>>
    \/ Tick /\ UNCHANGED <<n_events, pollVars>>

SpecCombo == Init /\ [][NextCombo]_vars

Counted == n_events < MaxOptEvents /\ n_events' = n_events + 1

\* The gateway delivers any sequence of add and remove events: the handlers see
\* no event when a moderator clears a message's reactions or while the
\* connection is down, so two adds of one token by one user may arrive with no
\* remove between them.  Each event starts a coroutine in a free slot.
NextOptIn ==
    \/ \E h \in Slots, u \in OptUsers, m \in OptMsgs, e \in OptEmojis,
          guild \in BOOLEAN, role \in BOOLEAN :
            ReactionAdd(h, u, m, e, guild, role) /\ Counted /\ UNCHANGED pollVars
    \/ \E h \in Slots, u \in OptUsers \ {Bot}, m \in OptMsgs, e \in OptEmojis,
          guild \in BOOLEAN, role \in BOOLEAN :
            ReactionRemove(h, u, e, m, guild, role) /\ Counted /\ UNCHANGED pollVars
    \/ \E h \in Slots, found \in BOOLEAN, role \in BOOLEAN :
            ResolveMember(h, found, role) /\ UNCHANGED <<n_events, pollVars>>
    \/ \E h \in Slots, timeout_ok \in BOOLEAN, cleanup_ok \in BOOLEAN, log_ok \in BOOLEAN,
          role \in BOOLEAN :
            PunishDone(h, timeout_ok, cleanup_ok, log_ok, role)
                /\ UNCHANGED <<n_events, pollVars>>
    \/ \E h \in Slots, found \in BOOLEAN :
            OptInFetched(h, found) /\ UNCHANGED <<n_events, pollVars>>
    \/ \E h \in Slots, ok \in BOOLEAN :
            AddRolesDone(h, ok) /\ UNCHANGED <<n_events, pollVars>>
    \/ \E h \in Slots, found \in BOOLEAN :
            RemoveFetched(h, found) /\ UNCHANGED <<n_events, pollVars>>
    \/ \E h \in Slots, ok \in BOOLEAN :
            RemoveRolesDone(h, ok) /\ UNCHANGED <<n_events, pollVars>>

SpecOptIn == Init /\ [][NextOptIn]_vars

\* ========================================================= reaction claims

\* the coroutine of slot h comes back from resolving the member of a combo
\* match and decides: return, suppress or punish
DecisionStep(h) ==
    handlers[h].pc = "resolve_member" /\ handlers'[h].pc # "resolve_member"

\* a punishment of u is emitted in this step
PunishedIn(u) == Len(punish_log'[u]) = Len(punish_log[u]) + 1

\* u has never been punished, or the last punishment is 10 or more seconds old
CooledDown(u) == u \notin DOMAIN punished_at \/ now - punished_at[u].at >= 10

\* C4 as stated: two punishments of the same user are never less than 10
\* seconds apart, and every combo match 10 or more seconds after the user's
\* last punishment (or with none before) emits a punishment, on whichever
\* message it happens.
C4_MatchPunishedIffCooledDown ==
    [][ \A h \in Slots : DecisionStep(h) =>
            (PunishedIn(handlers[h].user) <=> CooledDown(handlers[h].user)) ]_vars

\* C4 amended: two punishments of the same user are never less than 10 seconds
\* apart; a combo match less than 10 seconds after the user's last punishment,
\* on the same or on another message, emits none; a match 10 or more seconds
\* after it emits one provided the member is resolved (guild.get_member or
\* fetch_member returns the member); when fetch_member raises NotFound the
\* handler returns and nothing is emitted.
C4_CooldownPerUser ==
    [][ /\ \A u \in Users : PunishedIn(u) => CooledDown(u)
        /\ \A u \in Users : punish_log'[u] # punish_log[u] =>
              \E h \in Slots : DecisionStep(h) /\ handlers[h].user = u
        /\ \A h \in Slots : DecisionStep(h) =>
              LET u == handlers[h].user
              IN  /\ outcome'.user = u
                  /\ outcome'.kind = "notfound" => ~PunishedIn(u)
                  /\ outcome'.kind # "notfound" => (PunishedIn(u) <=> CooledDown(u)) ]_vars

\* C4 witness: a match was suppressed on one message while the user's last
\* punishment was emitted on another, and the user has been punished again
\* after an earlier cooldown.
C4_Witness ==
    \E u \in Users :
        /\ Len(punish_log[u]) >= 2
        /\ outcome.user = u
        /\ outcome.kind = "suppressed"
        /\ outcome.msg # punished_at[u].msg

\* C5: the k-th punishment of a user carries count = k and 1, 5, 15 minutes for
\* k = 1, 2, 3 and 60 minutes from the fourth on.
C5_EscalationLadder ==
    \A u \in Users : \A k \in 1..Len(punish_log[u]) :
        /\ punish_log[u][k].count = k
        /\ punish_log[u][k].minutes =
              (CASE k = 1 -> 1 [] k = 2 -> 5 [] k = 3 -> 15 [] OTHER -> 60)

\* C5 witness: a user has been punished five times, past the end of the ladder.
C5_Witness ==
    \E u \in Users : Len(punish_log[u]) >= 5 /\ offense_counts[u] = 5

\* C6: a reaction other than the opt-in token on the opt-in message is removed
\* by the handler, and the handler makes no role change.
C6_OtherTokenScrubbed ==
    /\ ~unscrubbed
    /\ \A h \in Slots :
          handlers[h].pc \in {"optin_fetch", "add_roles"} => handlers[h].emoji = OptInToken

\* the designated opt-in message: written by the bot, its embed carrying the
\* opt-in title
IsDesignated(m) ==
    /\ MsgAuthor(m) = Bot
    /\ MsgEmbedTitle(m) # NoEmbed
    /\ Contains(MsgEmbedTitle(m), OptInTitle)

\* C7: add_roles and remove_roles are called only for a reaction on the
\* designated opt-in message; on any other message, a bot-authored message
\* with no embed included, nothing is granted or revoked.
C7_OnlyDesignatedMessage ==
    \A h \in Slots :
        handlers[h].pc \in {"add_roles", "remove_roles"} => IsDesignated(handlers[h].msg)

\* C8: add_roles is in flight only for a member who does not hold the role and
\* at most once per user, also when handlers overlap; remove_roles is in
\* flight only for a member who holds the role.
C8_GrantOnceRevokeIfHeld ==
    /\ \A h \in Slots : handlers[h].pc = "add_roles" => handlers[h].user \notin roles
    /\ \A h1, h2 \in Slots :
          (h1 # h2 /\ handlers[h1].pc = "add_roles" /\ handlers[h2].pc = "add_roles")
              => handlers[h1].user # handlers[h2].user
    /\ \A h \in Slots : handlers[h].pc = "remove_roles" => handlers[h].user \in roles

\* ============================================== poll-cycle claims, continued

\* a poll cycle ends in this step, its fetch having returned a badge list, and
\* every write it attempts succeeds
CycleEndsWritesWorking ==
    /\ \/ \E resp \in Responses, channel \in BOOLEAN : PollFetch(resp, channel, "ok")
       \/ \E sent \in BOOLEAN : PollAnnounce(sent, "ok")
    /\ poll_pc' = "returned"
    /\ last_fetch' = "list"

\* a step of check_for_badges whose save_snapshot failed
WriteFailedStep ==
    \E saved \in SaveResults \ {"ok"} :
        /\ \/ \E resp \in Responses, channel \in BOOLEAN : PollFetch(resp, channel, saved)
           \/ \E sent \in BOOLEAN : PollAnnounce(sent, saved)
        /\ known_badge_ids' # known_badge_ids

\* C11: a failed snapshot write does not stop the poll loop, and a following
\* poll cycle repairs it: a cycle that fetches a badge list and whose writes
\* succeed ends with the snapshot file holding the in-memory seen-set, also
\* when the cycle finds no new badge.
C11_FailedWriteRepaired ==
    [][ /\ WriteFailedStep => (loop_running' /\ poll_pc' = "returned")
        /\ CycleEndsWritesWorking => load_snapshot(snapshot_file') = known_badge_ids' ]_vars

\* ================================================ reaction claims, continued

C13_SameKeyHandlersAtomic ==
    ( /\ \A h \in Slots : handlers[h].pc = "idle"
      /\ outcome.kind = "suppressed" )
        => CombosHandled(reactions_on_message[<<outcome.msg, outcome.user>>]) # <<>>

\* C14: a handler that has emitted a punishment ends with the tracked set of
\* its key empty, whatever member.timeout, the cleanup and log_channel.send do.
C14_ClearedAfterPunishment ==
    [][ \A h \in Slots :
          (handlers[h].pc = "punish" /\ handlers'[h].pc = "idle")
            => reactions_on_message'[<<handlers[h].msg, handlers[h].user>>] = {} ]_vars

\* the items of bs whose id is in new, in the order of bs
NewInOrder(bs, new) == SelectSeq(bs, LAMBDA b : b \in new)

\* C15: a poll cycle with a non-empty fetch and the channel available sends
\* exactly the fetched items whose id is not in known_badge_ids (as read by the
\* difference of bot.py:261), each once, in the order of the fetch result:
\* while it sends, what it has sent are the new items before the loop
\* position, and when it ends all of them.
C15_AnnouncesNewInFetchOrder ==
    [][ /\ (poll_pc = "fetch" /\ last_fetch' = "list") =>
              \A resp \in Responses, saved \in SaveResults :
                  ( /\ PollFetch(resp, TRUE, saved)
                    /\ NewBadges(IdsOf(resp.body), known_badge_ids) # {} )
                      => /\ poll_pc' = "announce"
                         /\ badges' = resp.body
                         /\ new_badges' = IdsOf(resp.body) \ known_badge_ids
        /\ poll_pc' = "announce" =>
              /\ announced_now' = NewInOrder(SubSeq(badges', 1, idx' - 1), new_badges')
              /\ badges'[idx'] \in new_badges'
        /\ (poll_pc = "announce" /\ poll_pc' = "returned") =>
              announced_now' = NewInOrder(badges, new_badges) ]_vars

\* C15 witness: a cycle has ended having announced two new items in the order
\* of the fetch result, which is not the order of their ids.
C15_Witness ==
    /\ poll_pc = "returned"
    /\ last_fetch = "list"
    /\ announced_now = <<2, 1>>
    /\ known_badge_ids = {1, 2}

\* the handler of slot h decides in this step that its match is suppressed
SuppressedStep(h) == DecisionStep(h) /\ outcome'.kind = "suppressed"

\* what a suppressed match leaves alone
SuppressionFrame ==
    \A h \in Slots : SuppressedStep(h) =>
        /\ offense_counts' = offense_counts
        /\ last_punished_at' = last_punished_at
        /\ punish_log' = punish_log
        /\ reactions_on_message' = reactions_on_message

\* C16 as stated: a suppressed match leaves offense count and last_punished_at
\* alone and the tracked set uncleared, so the next reaction-add of any emoji
\* by that user on that message matches again and, the cooldown elapsed,
\* fires a punishment.
C16_SuppressedThenRetriggers ==
    [][ /\ SuppressionFrame
        /\ \A h \in Slots, e \in ModEmojis :
              ( /\ outcome.kind = "suppressed"
                /\ ReactionAdd(h, outcome.user, outcome.msg, e, TRUE, TRUE) )
                  => handlers'[h].pc = "resolve_member"
        /\ \A h \in Slots :
              ( /\ DecisionStep(h)
                /\ outcome.kind = "suppressed"
                /\ outcome.user = handlers[h].user
                /\ outcome.msg = handlers[h].msg
                /\ CooledDown(handlers[h].user) )
                  => PunishedIn(handlers[h].user) ]_vars

\* C17: the snapshot file is replaced atomically: at every point, a stop in the
\* middle of save_snapshot included, the file is absent or holds the complete
\* payload of a save_snapshot call, so that load_snapshot never reads a
\* half-written file as the empty set.
C17_SnapshotReplacedAtomically ==
    /\ snapshot_file.state # "torn"
    /\ snapshot_file.state = "valid" => snapshot_file = Valid(Range(snapshot_file.payload))

\* C18: one reaction-add event emits at most one punishment and raises the
\* user's offense count by at most 1, also when the tracked set holds several
\* combos: punishments and count changes happen only in the decision of an
\* event's handler, one at a time, and a handler decides once.
C18_OnePunishmentPerEvent ==
    [][ /\ \A u \in Users :
              /\ Len(punish_log'[u]) <= Len(punish_log[u]) + 1
              /\ offense_counts'[u] <= offense_counts[u] + 1
              /\ offense_counts'[u] - offense_counts[u]
                    = Len(punish_log'[u]) - Len(punish_log[u])
              /\ punish_log'[u] # punish_log[u] =>
                    \E h \in Slots : DecisionStep(h) /\ handlers[h].user = u
        /\ \A h \in Slots :
              /\ handlers'[h].pc = "resolve_member" =>
                    handlers[h].pc \in {"idle", "resolve_member"}
              /\ Len(handlers'[h].combos) <= 1 ]_vars

\* C18 witness: a punishment has been emitted on a tracked set that holds the
\* first and the third combo, and it is the user's only one.
C18_Witness ==
    \E h \in Slots :
        /\ handlers[h].pc = "punish"
        /\ FORBIDDEN_COMBOS[1] \cup FORBIDDEN_COMBOS[3]
              \subseteq reactions_on_message[<<handlers[h].msg, handlers[h].user>>]
        /\ Len(punish_log[handlers[h].user]) = 1
        /\ offense_counts[handlers[h].user] = 1

\* C20: the combo a punishment reports is the first entry of FORBIDDEN_COMBOS
\* or the last: the second and the third entry hold the first, which is tested
\* before them, so they are never the matched combo.
C20_OnlyFirstOrLastCombo ==
    /\ \A u \in Users : \A k \in 1..Len(punish_log[u]) :
          punish_log[u][k].combo \in {1, Len(FORBIDDEN_COMBOS)}
    /\ \A h \in Slots : \A i \in 1..Len(handlers[h].combos) :
          handlers[h].combos[i] \in {1, Len(FORBIDDEN_COMBOS)}
    /\ \A i \in 2..(Len(FORBIDDEN_COMBOS) - 1) : FORBIDDEN_COMBOS[1] \subseteq FORBIDDEN_COMBOS[i]

\* C20 witness: the tracked set held the whole third combo when the punishment
\* was emitted, and the punishment reports the first.
C20_Witness ==
    \E h \in Slots :
        LET u == handlers[h].user
        IN  /\ handlers[h].pc = "punish"
            /\ handlers[h].combos = <<1>>
            /\ FORBIDDEN_COMBOS[3] \subseteq reactions_on_message[<<handlers[h].msg, u>>]
            /\ punish_log[u][Len(punish_log[u])].combo = 1

\* a step of check_for_badges
CycleStep ==
    \/ \E resp \in Responses, channel \in BOOLEAN, saved \in SaveResults :
            PollFetch(resp, channel, saved)
    \/ \E sent \in BOOLEAN, saved \in SaveResults : PollAnnounce(sent, saved)

\* C19: every id a poll cycle adds to known_badge_ids or to the snapshot file
\* has been announced in that cycle, also when the target channel cannot be
\* resolved.
C19_CommittedIdsWereAnnounced ==
    [][ CycleStep =>
          /\ (known_badge_ids' \ known_badge_ids) \subseteq Range(announced_now')
          /\ snapshot_file' # snapshot_file =>
                (load_snapshot(snapshot_file') \ known_badge_ids)
                    \subseteq Range(announced_now') ]_vars

====
